---- MODULE Spec2Model ----
(***************************************************************************)
(* Model of src/app.py: the Flask handler post_image (POST /post-image)    *)
(* with the two helpers it calls, download_image and get_client.           *)
(*                                                                         *)
(* Two specifications share the actions.  Spec is one thread serving       *)
(* requests of every shape one after the other.  SpecThreads is the        *)
(* threaded server of app.run (line 195): one thread per request, all in   *)
(* flight at once, every request well-formed, so that the steps of         *)
(* get_client interleave in every order.                                   *)
(*                                                                         *)
(* The file system (the session directory and the scratch directory) and   *)
(* the module's global namespace are the shared state.  The remote HTTP    *)
(* server, the instagrapi Client (load_settings, login, dump_settings,     *)
(* photo_upload) and os.remove are outside the repository: each call to    *)
(* them is one step whose outcome is chosen among the outcomes the call    *)
(* can have (a result or a raised exception).                              *)
(*                                                                         *)
(* Init is the state after `ensure_directories()` of line 194: both        *)
(* directories exist, the scratch directory is empty, and the session      *)
(* directory holds what earlier runs left there.                           *)
(*                                                                         *)
(* download_image uses the global name urlparse (line 65), which app.py    *)
(* never binds (lines 1-8): as shipped the lookup raises NameError.  The   *)
(* variable urlparse_bound tells whether the name resolves in the running  *)
(* process; with FALSE, the module as shipped, nothing after line 65 of    *)
(* download_image and nothing after line 159 of post_image is ever run.    *)
(***************************************************************************)
EXTENDS Naturals, Sequences, FiniteSets, TLC

(***************************************************************************)
(* Bounds of the model.                                                    *)
(***************************************************************************)
\* Number of requests the server receives in one behaviour: served in turn
\* by the one thread of Spec, each by a thread of its own in SpecThreads.
MaxRequests == 2

Workers == 1..MaxRequests

\* The thread of Spec: the first one.
Main == CHOOSE w \in Workers : \A v \in Workers : w <= v

(***************************************************************************)
(* Inputs.                                                                 *)
(***************************************************************************)
Users == {"alice", "bob"}

\* The values a request may carry under each key of its JSON object; a key
\* may also be absent from the object.
FieldValues(k) ==
    CASE k = "username"  -> {"", "alice", "bob"}
      [] k = "password"  -> {"pw"}
      [] k = "image_url" -> {"ftp://example.com/a.jpg", "file:///etc/passwd",
                             "https://example.com/pic.JPG"}
      [] k = "caption"   -> {"hello"}

Keys == {"username", "password", "image_url", "caption"}

AllValues == UNION {FieldValues(k) : k \in Keys}

\* Every JSON object over Keys: any subset of the keys, each with one of
\* its values.
JsonObjects ==
    UNION {{f \in [K -> AllValues] : \A k \in K : f[k] \in FieldValues(k)}
           : K \in SUBSET Keys}

\* A request body is a JSON object, a JSON document that is no object
\* (here an array), or bytes that are no JSON at all.
Bodies ==
    {[kind |-> "object", fields |-> f] : f \in JsonObjects}
    \cup {[kind |-> "array"], [kind |-> "invalid"]}

\* What the remote server answers to the streaming GET: the connection
\* fails, the status is not 2xx, or the status is 2xx and the body then
\* streams `body` bytes, the stream breaking off or not.
NetOutcomes ==
    {[status |-> "conn_error"], [status |-> "http_error"]}
    \cup {[status |-> "ok", body |-> b, broken |-> k]
          : b \in {"empty", "data"}, k \in BOOLEAN}

\* What a failed login may raise (the text of the exception).
LoginErrors == {"bad_password", "challenge_required"}

\* Primary keys the service may give a created post.
MediaPks == {17, 42}

\* The requests of SpecThreads: well-formed, one per account, and answered
\* by the remote server with an image.
ThreadBodies ==
    {[kind |-> "object",
      fields |-> [username |-> u, password |-> "pw",
                  image_url |-> "https://example.com/pic.JPG"]] : u \in Users}

ThreadNetOutcomes == {[status |-> "ok", body |-> "data", broken |-> FALSE]}

ThreadMediaPks == {17}

(***************************************************************************)
(* Files.                                                                  *)
(***************************************************************************)
SESSIONS_DIR == "sessions"
TEMP_DIR == "temp_images"

\* hashlib.sha256(username.encode("utf-8")).hexdigest()
sha256_hexdigest(username) ==
    CASE username = "alice" ->
           "2bd806c97f0e00af1a1fc3328fa763a9269723c8db8fac4f93af71db186d6e90"
      [] username = "bob" ->
           "81b637d8fcd2c6da6359e6963113a1170de795e4b725b84d1e0b4cfd9ec58ce9"

\* A plausible slip: the file name does not depend on the account.
get_session_file_shared(username) ==
    SESSIONS_DIR \o "/" \o "session.json"

get_session_file(username) ==
    SESSIONS_DIR \o "/" \o sha256_hexdigest(username) \o "_session.json"

SessionPaths == {get_session_file(u) : u \in Users}

Absent == [kind |-> "absent"]
Corrupt == [kind |-> "corrupt"]
\* The settings of a Client logged in as u.  The code never asks whether the
\* service still honours a session, so the model does not tell a live
\* session from an expired one.
Session(u) == [kind |-> "session", user |-> u]

\* What the session directory may hold for account u when the server
\* starts: nothing, a file load_settings cannot read, or a session of u.
InitialContents(u) == {Absent, Corrupt, Session(u)}

(***************************************************************************)
(* Strings, as the code handles them.                                      *)
(***************************************************************************)
Char(s, i) == SubSeq(s, i, i)

\* str.startswith(prefix)
startswith(s, prefix) ==
    Len(s) >= Len(prefix) /\ SubSeq(s, 1, Len(prefix)) = prefix

\* The least index i >= from with s[i] in chars, Len(s) + 1 when none.
Find(s, chars, from) ==
    LET hits == {i \in from..Len(s) : Char(s, i) \in chars}
    IN  IF hits = {} THEN Len(s) + 1
        ELSE CHOOSE i \in hits : \A j \in hits : i <= j

\* The greatest index i with s[i] in chars, 0 when none.
RFind(s, chars) ==
    LET hits == {i \in 1..Len(s) : Char(s, i) \in chars}
    IN  IF hits = {} THEN 0
        ELSE CHOOSE i \in hits : \A j \in hits : i >= j

UpperCase == "ABCDEFGHIJKLMNOPQRSTUVWXYZ"
LowerCase == "abcdefghijklmnopqrstuvwxyz"
Digits == "0123456789"

CharsOf(s) == {Char(s, i) : i \in 1..Len(s)}

\* str.isalnum() on ASCII text: non-empty, letters and digits only.
isalnum(s) ==
    /\ Len(s) > 0
    /\ CharsOf(s) \subseteq (CharsOf(UpperCase) \cup CharsOf(LowerCase) \cup CharsOf(Digits))

LowerChar(c) ==
    IF c \in CharsOf(UpperCase)
    THEN Char(LowerCase, CHOOSE i \in 1..Len(UpperCase) : Char(UpperCase, i) = c)
    ELSE c

\* str.lower()
RECURSIVE lower(_)
lower(s) ==
    IF Len(s) = 0 THEN ""
    ELSE LowerChar(Char(s, 1)) \o lower(SubSeq(s, 2, Len(s)))

\* urlparse(image_url).path for a url of the form scheme://netloc/path?query#fragment
urlparse_path(image_url) ==
    LET colon == Find(image_url, {":"}, 1)
        net0  == colon + 3
        path0 == Find(image_url, {"/", "?", "#"}, net0)
        path1 == Find(image_url, {"?", "#"}, path0)
    IN  SubSeq(image_url, path0, path1 - 1)

\* os.path.basename
basename(path) == SubSeq(path, RFind(path, {"/"}) + 1, Len(path))

\* os.path.splitext(base_name)[1][1:]: what follows the last dot, when that
\* dot is preceded by a character that is no dot.
splitext_ext(base_name) ==
    LET dot == RFind(base_name, {"."})
        lead == Find(base_name, CharsOf(base_name) \ {"."}, 1)
    IN  IF dot = 0 \/ dot < lead THEN ""
        ELSE SubSeq(base_name, dot + 1, Len(base_name))

\* Lines 65-71 and the .lower() of line 74.
extension(image_url) ==
    LET ext == splitext_ext(basename(urlparse_path(image_url)))
    IN  lower(IF Len(ext) = 0 \/ Len(ext) > 5 \/ ~isalnum(ext) THEN "jpg" ELSE ext)

\* uuid4().hex as drawn by the n-th request (a request draws at most one):
\* no two draws give the same name.
uuid4_hex(n) == "uuid" \o ToString(n)

\* Lines 74-75.
local_path(image_url, n) ==
    TEMP_DIR \o "/" \o uuid4_hex(n) \o "." \o extension(image_url)

(***************************************************************************)
(* download_image (lines 51-94) as a function of the url, of what the      *)
(* remote server answers, of whether the global name urlparse resolves and *)
(* of the number n of the request.     The result tells whether it raised, *)
(* the path returned or the text of the exception raised, the number of    *)
(* HTTP requests issued and the file it left in the scratch directory.     *)
(***************************************************************************)
NoFile == [path |-> "", content |-> "none"]

Raised(text, requests, file) ==
    [raised |-> TRUE, value |-> text, requests |-> requests, file |-> file]

Returned(path, requests, file) ==
    [raised |-> FALSE, value |-> path, requests |-> requests, file |-> file]

\* Lines 57-87: everything after the scheme check.
fetch_and_save(image_url, net, bound, n) ==
    IF net.status = "conn_error" THEN
        \* line 61 raises a RequestException, caught at line 89
        Raised("Network error downloading image: connection failed", 1, NoFile)
    ELSE IF net.status = "http_error" THEN
        \* line 62 raises HTTPError, a RequestException
        Raised("Network error downloading image: 404 Client Error", 1, NoFile)
    ELSE IF ~bound THEN
        \* line 65: NameError, caught at line 93
        Raised("Unexpected error downloading image: name 'urlparse' is not defined",
               1, NoFile)
    ELSE LET path == local_path(image_url, n)
             file == [path |-> path, content |-> net.body]
         IN  IF net.broken THEN
                 \* lines 78-81: the file is open when iter_content raises
                 Raised("Network error downloading image: connection broken", 1, file)
             ELSE
                 \* lines 84-87: the file exists, whatever its size
                 Returned(path, 1, file)

\* A plausible slip: no scheme check before the request.
download_image_unchecked(image_url, net, bound, n) ==
    fetch_and_save(image_url, net, bound, n)

download_image(image_url, net, bound, n) ==
    IF ~(startswith(image_url, "http://") \/ startswith(image_url, "https://")) THEN
        \* line 55 raises ValueError, caught at line 93
        Raised("Unexpected error downloading image: Invalid URL scheme - must be http:// or https://",
               0, NoFile)
    ELSE fetch_and_save(image_url, net, bound, n)

(***************************************************************************)
(* State.                                                                  *)
(***************************************************************************)
VARIABLES
    urlparse_bound,  \* whether the global name urlparse resolves in module app
    session_files,   \* SESSIONS_DIR: path -> content
    temp_files,      \* TEMP_DIR: the set of files, each [path, content]
    received,        \* the number of requests received so far
    pc,              \* worker -> the place of its request in post_image
    req,             \* worker -> the body of its request
    local,           \* worker -> the local variables of post_image
    resp,            \* worker -> the response of its request
    hist,            \* worker -> what its request has done so far
    accesses,        \* every [user, path] of a session file read or written
    writes           \* every [user, path, session, logged_in] written by dump_settings

vars == <<urlparse_bound, session_files, temp_files, received,
          pc, req, local, resp, hist, accesses, writes>>

NoReq == [kind |-> "none"]
NoResp == [code |-> 0, body |-> [none |-> TRUE]]

NoLocal ==
    [username |-> "", password |-> "", image_url |-> "", caption |-> "",
     image_path |-> "", cl |-> Absent, media |-> 0]

NoHist ==
    [serial |-> 0, net |-> [status |-> "none"], requests |-> 0, created |-> "",
     download |-> "none", exists |-> "none", load |-> "none", loaded |-> Absent,
     logins |-> 0, login |-> "none", login_error |-> "", dumps |-> 0, dumped |-> Absent,
     get_client |-> "none", uploads |-> 0, upload |-> "none", remove |-> "none"]

Init ==
    \* app.py uses the name urlparse (line 65) and never binds it (lines
    \* 1-8): it resolves only in a process that has put it in the module's
    \* globals.
    /\ urlparse_bound \in BOOLEAN
    /\ session_files \in
         {f \in [SessionPaths -> UNION {InitialContents(u) : u \in Users}] :
            \A u \in Users : f[get_session_file(u)] \in InitialContents(u)}
    /\ temp_files = {}
    /\ received = 0
    /\ pc = [w \in Workers |-> "idle"]
    /\ req = [w \in Workers |-> NoReq]
    /\ local = [w \in Workers |-> NoLocal]
    /\ resp = [w \in Workers |-> NoResp]
    /\ hist = [w \in Workers |-> NoHist]
    /\ accesses = {}
    /\ writes = {}

(***************************************************************************)
(* post_image, lines 148-174.                                              *)
(***************************************************************************)
\* data.get(key): the value, or None when the key is absent; `not value`
\* holds of None and of the empty string.
Has(data, key) == key \in DOMAIN data

Falsy(data, key) == ~Has(data, key) \/ data[key] = ""

\* jsonify(...) and the status of the three return statements.
Success(media_pk, caption) ==
    [code |-> 200,
     body |-> [status |-> "success", media_id |-> media_pk, caption |-> caption]]

BadRequest ==
    [code |-> 400, body |-> [error |-> "username, password, and image_url are required"]]

\* Lines 172-174: whatever is raised inside the try block.
ServerError(text) == [code |-> 500, body |-> [error |-> text]]

\* Lines 150-157 for a body and the worker's state after them.
\* get_json(force=True) raises BadRequest on bytes that are no JSON; .get
\* raises AttributeError on a document that is no object.
Validate(body) ==
    IF body.kind = "invalid" THEN
        [next |-> "done", resp |-> ServerError("400 Bad Request: Failed to decode JSON object"),
         local |-> NoLocal]
    ELSE IF body.kind = "array" THEN
        [next |-> "done", resp |-> ServerError("'list' object has no attribute 'get'"),
         local |-> NoLocal]
    ELSE LET data == body.fields
             got(k) == IF Has(data, k) THEN data[k] ELSE ""
             vals == [NoLocal EXCEPT !.username = got("username"),
                                     !.password = got("password"),
                                     !.image_url = got("image_url"),
                                     !.caption = got("caption")]
         IN  IF Falsy(data, "username") \/ Falsy(data, "password") \/ Falsy(data, "image_url")
             THEN [next |-> "done", resp |-> BadRequest, local |-> vals]
             ELSE [next |-> "download", resp |-> NoResp, local |-> vals]

\* A request arrives at an idle thread, which runs lines 150-157.  Threads
\* are numbered in the order they take their first request.
Receive(w, bodies) ==
    /\ pc[w] = "idle"
    /\ \A v \in Workers : v < w => pc[v] # "idle"
    /\ received < MaxRequests
    /\ \E body \in bodies :
         LET r == Validate(body)
         IN  /\ req' = [req EXCEPT ![w] = body]
             /\ pc' = [pc EXCEPT ![w] = r.next]
             /\ resp' = [resp EXCEPT ![w] = r.resp]
             /\ local' = [local EXCEPT ![w] = r.local]
    /\ received' = received + 1
    /\ hist' = [hist EXCEPT ![w].serial = received + 1]
    /\ UNCHANGED <<urlparse_bound, session_files, temp_files, accesses, writes>>

\* Line 159.
DownloadImage(w, nets) ==
    /\ pc[w] = "download"
    /\ \E net \in nets :
         LET d == download_image(local[w].image_url, net, urlparse_bound, hist[w].serial)
         IN  /\ hist' = [hist EXCEPT ![w].net = IF d.requests > 0 THEN net ELSE @,
                                     ![w].requests = @ + d.requests,
                                     ![w].created = d.file.path,
                                     ![w].download = IF d.raised THEN "raised" ELSE "returned"]
             /\ temp_files' = IF d.file.path = "" THEN temp_files
                              ELSE temp_files \cup {d.file}
             /\ IF d.raised
                THEN /\ pc' = [pc EXCEPT ![w] = "done"]
                     /\ resp' = [resp EXCEPT ![w] = ServerError(d.value)]
                     /\ local' = local
                ELSE /\ pc' = [pc EXCEPT ![w] = "exists"]
                     /\ resp' = resp
                     /\ local' = [local EXCEPT ![w].image_path = d.value]
    /\ UNCHANGED <<urlparse_bound, session_files, received, req, accesses, writes>>

(***************************************************************************)
(* get_client, lines 29-49, called at line 160.  Each access to the        *)
(* session file and each call of the Client is a step of its own: other    *)
(* requests run in between.                                                *)
(***************************************************************************)
\* Lines 30-34: Client() has no settings; does the session file exist?
GetClient_exists(w) ==
    /\ pc[w] = "exists"
    /\ LET session_file == get_session_file(local[w].username)
           there == session_files[session_file].kind # "absent"
       IN  /\ pc' = [pc EXCEPT ![w] = IF there THEN "load" ELSE "login"]
           /\ hist' = [hist EXCEPT ![w].exists = IF there THEN "yes" ELSE "no"]
           /\ accesses' = accesses \cup
                  {[user |-> local[w].username, path |-> session_file]}
    /\ local' = [local EXCEPT ![w].cl = Absent]
    /\ UNCHANGED <<urlparse_bound, session_files, temp_files, received,
                   req, resp, writes>>

\* Lines 35-39: load_settings raises on a file it cannot read; the
\* exception is logged and dropped.
GetClient_load(w) ==
    /\ pc[w] = "load"
    /\ LET session_file == get_session_file(local[w].username)
           content == session_files[session_file]
       IN  /\ IF content.kind = "session"
              THEN /\ local' = [local EXCEPT ![w].cl = content]
                   /\ hist' = [hist EXCEPT ![w].load = "ok", ![w].loaded = content]
              ELSE /\ local' = local
                   /\ hist' = [hist EXCEPT ![w].load = "raised"]
           /\ accesses' = accesses \cup
                  {[user |-> local[w].username, path |-> session_file]}
    /\ pc' = [pc EXCEPT ![w] = "login"]
    /\ UNCHANGED <<urlparse_bound, session_files, temp_files, received,
                   req, resp, writes>>

\* A plausible slip: the failure is logged and get_client goes on.
login_except_swallowed(text) == [next |-> "upload", resp |-> NoResp]

\* Lines 45-47, then 172-174: the exception is logged and raised again, and
\* post_image turns it into the response.
login_except(text) == [next |-> "done", resp |-> ServerError(text)]

\* Line 42: cl.login(username, password).  The Client either raises or
\* holds a session of `username` afterwards: a new one, or the one it had
\* loaded.
GetClient_login(w) ==
    /\ pc[w] = "login"
    /\ \E ok \in BOOLEAN :
         IF ok
         THEN /\ \E s \in {Session(local[w].username)} \cup
                          (IF local[w].cl.kind = "session" THEN {local[w].cl} ELSE {}) :
                    local' = [local EXCEPT ![w].cl = s]
              /\ hist' = [hist EXCEPT ![w].logins = @ + 1, ![w].login = "ok"]
              /\ pc' = [pc EXCEPT ![w] = "dump"]
              /\ resp' = resp
         ELSE \E text \in LoginErrors :
              LET r == login_except(text)
              IN  /\ local' = local
                  /\ hist' = [hist EXCEPT ![w].logins = @ + 1, ![w].login = "raised",
                                          ![w].login_error = text,
                                          ![w].get_client = "raised"]
                  /\ pc' = [pc EXCEPT ![w] = r.next]
                  /\ resp' = [resp EXCEPT ![w] = r.resp]
    /\ UNCHANGED <<urlparse_bound, session_files, temp_files, received,
                   req, accesses, writes>>

\* A plausible slip: the settings are never written.
dump_settings_skipped(files, session_file, settings) == files

\* cl.dump_settings(session_file): the file holds the settings afterwards.
dump_settings(files, session_file, settings) ==
    [files EXCEPT ![session_file] = settings]

\* Lines 43-49: dump_settings writes the file, or raises (the file system
\* refuses) and lines 45-47 raise again.
GetClient_dump(w) ==
    /\ pc[w] = "dump"
    /\ LET session_file == get_session_file(local[w].username) IN
       \E ok \in BOOLEAN :
         IF ok
         THEN /\ session_files' = dump_settings(session_files, session_file, local[w].cl)
              /\ hist' = [hist EXCEPT ![w].dumps = @ + 1,
                                      ![w].dumped = session_files'[session_file],
                                      ![w].get_client = "returned"]
              /\ accesses' = accesses \cup
                     {[user |-> local[w].username, path |-> session_file]}
              /\ writes' = writes \cup
                     {[user |-> local[w].username, path |-> p,
                       session |-> session_files'[p],
                       logged_in |-> hist[w].login = "ok"]
                      : p \in {q \in SessionPaths : session_files'[q] # session_files[q]}}
              /\ pc' = [pc EXCEPT ![w] = "upload"]
              /\ resp' = resp
         ELSE /\ session_files' = session_files
              /\ hist' = [hist EXCEPT ![w].get_client = "raised"]
              /\ accesses' = accesses
              /\ writes' = writes
              /\ pc' = [pc EXCEPT ![w] = "done"]
              /\ resp' = [resp EXCEPT ![w] = ServerError("[Errno 28] No space left on device")]
    /\ UNCHANGED <<urlparse_bound, temp_files, received, req, local>>

\* Lines 161-163: cl.photo_upload(image_path, caption) returns the media
\* created, or raises.
PhotoUpload(w, pks) ==
    /\ pc[w] = "upload"
    /\ \E ok \in BOOLEAN :
         IF ok
         THEN /\ \E pk \in pks : local' = [local EXCEPT ![w].media = pk]
              /\ hist' = [hist EXCEPT ![w].uploads = @ + 1, ![w].upload = "ok"]
              /\ pc' = [pc EXCEPT ![w] = "cleanup"]
              /\ resp' = resp
         ELSE /\ local' = local
              /\ hist' = [hist EXCEPT ![w].uploads = @ + 1, ![w].upload = "raised"]
              /\ pc' = [pc EXCEPT ![w] = "done"]
              /\ resp' = [resp EXCEPT ![w] = ServerError("upload failed")]
    /\ UNCHANGED <<urlparse_bound, session_files, temp_files, received,
                   req, accesses, writes>>

\* Lines 165-170: os.remove(image_path) removes the file, or raises; then
\* the success response.
Cleanup(w) ==
    /\ pc[w] = "cleanup"
    /\ \E ok \in BOOLEAN :
         IF ok
         THEN /\ temp_files' = {f \in temp_files : f.path # local[w].image_path}
              /\ hist' = [hist EXCEPT ![w].remove = "ok"]
              /\ resp' = [resp EXCEPT ![w] = Success(local[w].media, local[w].caption)]
         ELSE /\ temp_files' = temp_files
              /\ hist' = [hist EXCEPT ![w].remove = "raised"]
              /\ resp' = [resp EXCEPT ![w] = ServerError("[Errno 13] Permission denied")]
    /\ pc' = [pc EXCEPT ![w] = "done"]
    /\ UNCHANGED <<urlparse_bound, session_files, received, req, local,
                   accesses, writes>>

\* The response has been returned: the worker is free for the next request.
Respond(w) ==
    /\ pc[w] = "done"
    /\ pc' = [pc EXCEPT ![w] = "idle"]
    /\ req' = [req EXCEPT ![w] = NoReq]
    /\ local' = [local EXCEPT ![w] = NoLocal]
    /\ resp' = [resp EXCEPT ![w] = NoResp]
    /\ hist' = [hist EXCEPT ![w] = NoHist]
    /\ UNCHANGED <<urlparse_bound, session_files, temp_files, received,
                   accesses, writes>>

\* One thread, one request after the other.
Next ==
    \/ Receive(Main, Bodies)
    \/ DownloadImage(Main, NetOutcomes)
    \/ GetClient_exists(Main)
    \/ GetClient_load(Main)
    \/ GetClient_login(Main)
    \/ GetClient_dump(Main)
    \/ PhotoUpload(Main, MediaPks)
    \/ Cleanup(Main)
    \/ Respond(Main)

Spec == Init /\ [][Next]_vars

\* One thread per request; a thread ends with its response.
NextThreads ==
    \E w \in Workers :
        \/ Receive(w, ThreadBodies)
        \/ DownloadImage(w, ThreadNetOutcomes)
        \/ GetClient_exists(w)
        \/ GetClient_load(w)
        \/ GetClient_login(w)
        \/ GetClient_dump(w)
        \/ PhotoUpload(w, ThreadMediaPks)
        \/ Cleanup(w)

SpecThreads == Init /\ [][NextThreads]_vars

(***************************************************************************)
(* Properties.                                                             *)
(***************************************************************************)
InTempDir(path) == \E f \in temp_files : f.path = path

HasError(r) == "error" \in DOMAIN r.body

IsSuccess(r) == "status" \in DOMAIN r.body /\ r.body.status = "success"

\* The body is no JSON object, or its object lacks a required field or has
\* it empty.
LacksRequired(body) ==
    \/ body.kind # "object"
    \/ \E k \in {"username", "password", "image_url"} :
         k \notin DOMAIN body.fields \/ body.fields[k] = ""

IsHttpUrl(url) == startswith(url, "http://") \/ startswith(url, "https://")

\* get_client found no usable cached session: no file, or load_settings
\* raised on it.
NoUsableCache(w) == hist[w].exists = "no" \/ hist[w].load = "raised"

C2_CachedSessionNoLogin ==
    \A w \in Workers :
        (hist[w].load = "ok" /\ hist[w].get_client = "returned")
            => /\ hist[w].logins = 0
               /\ local[w].cl = hist[w].loaded

\* C3: when get_client finds no usable cached session it makes exactly one
\* login call; when it returns, that login succeeded and the session file
\* of the account was written exactly once, with the session returned;
\* when the login raised, nothing was written.
C3_OneLoginOneWrite ==
    \A w \in Workers :
        (NoUsableCache(w) /\ hist[w].get_client # "none")
            => /\ hist[w].logins = 1
               /\ hist[w].get_client = "returned"
                    => /\ hist[w].login = "ok"
                       /\ hist[w].dumps = 1
                       /\ hist[w].dumped = local[w].cl
                       /\ hist[w].dumped = Session(local[w].username)
               /\ hist[w].login = "raised" => hist[w].dumps = 0

\* C3 witness: get_client has returned after load_settings raised on the
\* file it found, and has replaced that file by the new session.
C3_Witness ==
    \E w \in Workers :
        /\ hist[w].load = "raised"
        /\ hist[w].get_client = "returned"
        /\ session_files[get_session_file(local[w].username)] = local[w].cl

\* C4: a request whose body lacks username, password or image_url (or has
\* it empty) is answered 400 with an error field, and nothing was fetched,
\* logged in, uploaded or written for it.
C4_MissingFieldIs400 ==
    \A w \in Workers :
        (pc[w] # "idle" /\ LacksRequired(req[w]))
            => /\ pc[w] = "done"
               /\ resp[w].code = 400
               /\ HasError(resp[w])
               /\ hist[w].requests = 0
               /\ hist[w].created = ""
               /\ hist[w].exists = "none"
               /\ hist[w].logins = 0
               /\ hist[w].dumps = 0
               /\ hist[w].uploads = 0

\* C5: a request with username, password and an http(s) image_url, whose
\* GET is answered 2xx with a body, and for which neither login nor
\* photo_upload raises, is answered 200 with status "success", the pk of
\* the media and the caption of the request ("" when it has none).
C5_ReachableImageSucceeds ==
    \A w \in Workers :
        (/\ pc[w] = "done"
         /\ ~LacksRequired(req[w])
         /\ IsHttpUrl(req[w].fields["image_url"])
         /\ hist[w].net = [status |-> "ok", body |-> "data", broken |-> FALSE]
         /\ hist[w].login # "raised"
         /\ hist[w].upload # "raised")
            => /\ resp[w].code = 200
               /\ IsSuccess(resp[w])
               /\ hist[w].upload = "ok"
               /\ resp[w].body.media_id = local[w].media
               /\ resp[w].body.caption =
                    (IF "caption" \in DOMAIN req[w].fields
                     THEN req[w].fields["caption"] ELSE "")

C7_LoginFailureIsFatal ==
    \A w \in Workers :
        hist[w].login = "raised"
            => /\ pc[w] = "done"
               /\ hist[w].get_client = "raised"
               /\ hist[w].dumps = 0
               /\ hist[w].dumped = Absent
               /\ hist[w].uploads = 0
               /\ resp[w] = [code |-> 500, body |-> [error |-> hist[w].login_error]]

\* C7 witness: a request whose login raised has its response.
C7_Witness ==
    \E w \in Workers :
        /\ hist[w].login = "raised"
        /\ hist[w].login_error \in LoginErrors
        /\ pc[w] = "done"

\* C8: download_image raises on a url that is neither http:// nor https://
\* before any HTTP request is issued and before any scratch file is made.
C8_BadSchemeRejectedEarly ==
    \A w \in Workers :
        (pc[w] \notin {"idle", "download"} /\ ~LacksRequired(req[w])
         /\ ~IsHttpUrl(local[w].image_url))
            => /\ hist[w].download = "raised"
               /\ hist[w].requests = 0
               /\ hist[w].created = ""
               /\ \A f \in temp_files : f.path # local_path(local[w].image_url, hist[w].serial)
               /\ pc[w] = "done"
               /\ resp[w].code = 500

\* C8 witness: download_image has been called on ftp://example.com/a.jpg.
C8_Witness ==
    \E w \in Workers :
        /\ pc[w] = "done"
        /\ local[w].image_url = "ftp://example.com/a.jpg"
        /\ hist[w].download = "raised"

C10_SessionFilesPerAccount ==
    /\ \A a, b \in accesses : a.user # b.user => a.path # b.path
    /\ \A wr \in writes :
         /\ wr.path = get_session_file(wr.user)
         /\ wr.logged_in
         /\ wr.session = Session(wr.user)
    /\ \A u \in Users :
         session_files[get_session_file(u)] \in InitialContents(u)

\* C10 witness: two requests of different usernames are in flight, one has
\* written its session file and the other is between its login and its
\* write.
C10_Witness ==
    \E v, w \in Workers :
        /\ local[v].username # local[w].username
        /\ pc[v] = "upload" /\ hist[v].dumps = 1
        /\ pc[w] = "dump"
        /\ \E a, b \in accesses : a.user # b.user

====
